---- MODULE Spec2Model ----
(***************************************************************************)
(* boehm_gc_allocator: the allocator hooks and the collected-heap API of   *)
(* src/lib.rs over the collector primitives declared in src/sys.rs.        *)
(*                                                                         *)
(* Every operation of lib.rs is one call of a primitive of libgc           *)
(* (#[link(name = "gc")], sys.rs:3).  The primitives are modelled by what  *)
(* libgc does for them (the behaviour lib.rs documents for each: scanned,  *)
(* uncollectable memory; a nesting enable/disable count; finalizers queued *)
(* for unreachable objects, ordered by reachability among finalizable      *)
(* objects, and run outside the collection proper), the operations of      *)
(* lib.rs by the primitive they call and the arguments they pass.          *)
(*                                                                         *)
(* Objects are named by identities 1..MaxObj that are never reused, so     *)
(* that a block that moved, or an object that was reclaimed, stays         *)
(* distinguishable from a later allocation.                                *)
(***************************************************************************)
EXTENDS Integers, Sequences, FiniteSets, TLC

\* Bounds of the model.
MaxObj == 3      \* objects ever allocated (blocks and GC'd objects together)
MaxNest == 2     \* how far the enable count is taken from zero, either way
MaxCalls == 3    \* gc_disable calls, and gc_enable calls, that are counted
MaxFinObj == 2   \* GC'd objects allocated where finalizers are registered
MaxFinNest == 1  \* how far the enable count is taken from zero there
NThreads == 2    \* threads that call gc_enable and gc_disable concurrently

Obj == 1..MaxObj
NULL == 0
Thread == 1..NThreads

\* Finalizer callbacks and their opaque data (lib.rs:113-114), and the
\* (finalizer, data) pairs the program registers.
Fn == {"f1", "f2"}
Data == {"d1", "d2"}
Callbacks == {<<"f1", "d1">>, <<"f2", "d2">>}

\* lib.rs:73-85.
FinalizerMode == {"Standard", "IgnoreSelf", "NoOrder"}

\* The mark procedure a registration variant installs (sys.rs:12-26).
MarkProc == {"normal", "ignore_self", "no_order"}

NoFin == [fn |-> "none", cd |-> "none", proc |-> "none"]
FinRec == [fn : Fn, cd : Data, proc : MarkProc]

VARIABLES
    kind,            \* kind[o]: "none" (not allocated yet), "gc" (GC_malloc),
                     \* "unc" (GC_malloc_uncollectable), "freed" (reclaimed or GC_free'd)
    refs,            \* refs[o]: the object pointers stored in o's memory
    fo,              \* libgc's table of finalizable objects: fo[o] is o's record or NoFin
    GC_finalize_now, \* libgc's queue of finalizers to run: <<fn, object, client data>>
    GC_dont_gc,      \* libgc's nesting count of GC_disable calls
    calls,           \* finalizer invocations so far, in order: <<fn, first arg, second arg>>
    roots,           \* GC'd pointers the program holds in locals (stack, registers)
    blocks,          \* blocks returned by the allocator hooks and not yet deallocated
    last,            \* the last call made and what it returned: [op, ret]
    reg,             \* reg[o]: the <<finalizer, data, mode>> last passed to register_finalizer
                     \* for o, and whether that call found a record of o to replace
    resized,         \* the blocks a reallocation returned
    nDisable,        \* completed gc_disable calls (counted by SpecGate only)
    nEnable,         \* completed gc_enable calls (counted by SpecGate only)
    pc,              \* pc[t]: where thread t is in a gc_enable or gc_disable call
    GC_allocate_ml,  \* libgc's allocation lock: the thread that holds it, or NULL
    tmp              \* tmp[t]: the count thread t has loaded

vars == <<kind, refs, fo, GC_finalize_now, GC_dont_gc, calls, roots, blocks, last,
          reg, resized, nDisable, nEnable, pc, GC_allocate_ml, tmp>>

\* The collector's own state, as one value the primitives map to a new one.
Heap ==
    [kind |-> kind, refs |-> refs, fo |-> fo, queue |-> GC_finalize_now,
     dont |-> GC_dont_gc, calls |-> calls]

SetHeap(h) ==
    /\ kind' = h.kind
    /\ refs' = h.refs
    /\ fo' = h.fo
    /\ GC_finalize_now' = h.queue
    /\ GC_dont_gc' = h.dont
    /\ calls' = h.calls

Live(h) == {o \in Obj : h.kind[o] \in {"gc", "unc"}}

\* Objects reachable from S through the pointers stored in live objects.
RECURSIVE Reach(_, _)
Reach(h, S) ==
    LET T == (S \cup UNION {h.refs[o] : o \in S}) \cap Live(h)
    IN  IF T = S \cap Live(h) THEN T ELSE Reach(h, T)

\* All orders in which the members of S can be listed.
RECURSIVE Orders(_)
Orders(S) ==
    IF S = {} THEN {<<>>}
    ELSE UNION {{<<x>> \o s : s \in Orders(S \ {x})} : x \in S}

\* The lowest identity not yet allocated, or NULL when the heap is exhausted.
Fresh(h) ==
    IF \E o \in Obj : h.kind[o] = "none"
    THEN CHOOSE o \in Obj : h.kind[o] = "none" /\ \A q \in Obj : h.kind[q] = "none" => o <= q
    ELSE NULL

\* The objects whose finalizers are queued.
Queued(h) == {h.queue[i][2] : i \in DOMAIN h.queue}

(***************************************************************************)
(* The collector primitives (src/sys.rs).                                  *)
(***************************************************************************)

\* A new object of kind k at identity o, zero-filled.
NewObject(h, o, k) ==
    [h EXCEPT !.kind[o] = k, !.refs[o] = {}]

\* What the mark procedure of a finalizable object x marks from: everything x
\* points to (normal), everything but x itself (ignore_self), nothing (no_order).
FinalizeMarkFrom(h, x) ==
    CASE h.fo[x].proc = "normal"      -> h.refs[x]
      [] h.fo[x].proc = "ignore_self" -> h.refs[x] \ {x}
      [] h.fo[x].proc = "no_order"    -> {}

\* The marked set after the root scan: the program's roots, every
\* uncollectable object and the objects of the finalizer queue, with all they
\* reach.
MarkedFromRoots(h, rts) ==
    Reach(h, rts \cup {o \in Obj : h.kind[o] = "unc"} \cup Queued(h))

\* Finalizable objects the root scan did not mark.
Candidates(h, rts) ==
    {x \in Live(h) : h.fo[x] # NoFin /\ x \notin MarkedFromRoots(h, rts)}

\* The marked set after every candidate's mark procedure has run.
MarkedForFinalization(h, rts) ==
    MarkedFromRoots(h, rts) \cup
        Reach(h, UNION {FinalizeMarkFrom(h, x) : x \in Candidates(h, rts)})

\* The candidates still unmarked: their finalizers are queued by this collection.
Ready(h, rts) ==
    Candidates(h, rts) \ MarkedForFinalization(h, rts)

\* The queue entry of a finalizable object: finalizer(object, client_data).
Invoke(h, x) == <<h.fo[x].fn, x, h.fo[x].cd>>

\* A full collection that queues the ready finalizers in the order `ord`: the
\* ready objects and what they reach survive this collection, their records
\* leave the table, every other unmarked collectable object is reclaimed.
CollectInOrder(h, rts, ord) ==
    LET ready == Ready(h, rts)
        keep  == MarkedForFinalization(h, rts) \cup Reach(h, ready)
        dead  == {o \in Obj : h.kind[o] = "gc" /\ o \notin keep}
    IN  [h EXCEPT
            !.kind  = [o \in Obj |-> IF o \in dead THEN "freed" ELSE h.kind[o]],
            !.refs  = [o \in Obj |-> IF o \in dead THEN {} ELSE h.refs[o]],
            !.fo    = [o \in Obj |-> IF o \in ready THEN NoFin ELSE h.fo[o]],
            !.queue = h.queue \o [i \in 1..Len(ord) |-> Invoke(h, ord[i])]]

\* Mutant: the collection runs whatever the count.
GC_try_to_collect_inner_uncounted(h, rts) ==
    {CollectInOrder(h, rts, ord) : ord \in Orders(Ready(h, rts))}

\* The collection proper: none while collection is disabled; the order of the
\* finalizer queue is the table's, any order.
GC_try_to_collect_inner(h, rts) ==
    IF h.dont # 0 THEN {h}
    ELSE {CollectInOrder(h, rts, ord) : ord \in Orders(Ready(h, rts))}

\* The queued finalizers are run, in queue order.
GC_invoke_finalizers(h) ==
    [h EXCEPT !.calls = h.calls \o h.queue, !.queue = <<>>]

\* GC_gcollect (sys.rs:11): runs what is queued, collects unless disabled, and
\* runs what the collection queued.
GC_gcollect(h, rts) ==
    {GC_invoke_finalizers(g) : g \in GC_try_to_collect_inner(GC_invoke_finalizers(h), rts)}

\* An allocation is served from a free list as is, or else runs the queued
\* finalizers and may collect (when collection is enabled) before it is served.
BeforeAllocation(h, rts) ==
    {h, GC_invoke_finalizers(h)} \cup GC_try_to_collect_inner(GC_invoke_finalizers(h), rts)

\* GC_malloc (sys.rs:7): a collectable object; <<heap, result>>.
GC_malloc(h, rts) ==
    {IF Fresh(g) = NULL THEN <<g, NULL>>
     ELSE <<NewObject(g, Fresh(g), "gc"), Fresh(g)>> : g \in BeforeAllocation(h, rts)}

\* GC_malloc_uncollectable (sys.rs:8): scanned, never reclaimed by a collection.
GC_malloc_uncollectable(h, rts) ==
    {IF Fresh(g) = NULL THEN <<g, NULL>>
     ELSE <<NewObject(g, Fresh(g), "unc"), Fresh(g)>> : g \in BeforeAllocation(h, rts)}

\* GC_free (sys.rs:10).
GC_free(h, p) ==
    [h EXCEPT !.kind[p] = "freed", !.refs[p] = {}]

\* GC_realloc (sys.rs:9): the result has the kind of the original and the
\* contents that fit (`kept`); it is the same object when it is resized in
\* place, else a new one (allocated as any object is), the old one freed.
GC_realloc(h, rts, p, kept, move) ==
    IF ~move THEN {<<[h EXCEPT !.refs[p] = kept], p>>}
    ELSE {IF Fresh(g) = NULL THEN <<g, NULL>>
          ELSE <<GC_free([NewObject(g, Fresh(g), g.kind[p]) EXCEPT !.refs[Fresh(g)] = kept], p),
                 Fresh(g)>> : g \in BeforeAllocation(h, rts \cup {p})}

\* GC_register_finalizer and its variants (sys.rs:12-26): the record of p is
\* replaced; the old finalizer and data are stored through ofn and ocd when
\* these are not null.  <<heap, what is stored through ofn, through ocd>>,
\* "none" where nothing is stored.
RegisterWith(h, p, fn, cd, ofn, ocd, proc) ==
    <<[h EXCEPT !.fo[p] = [fn |-> fn, cd |-> cd, proc |-> proc]],
      IF ofn = NULL THEN "none" ELSE h.fo[p].fn,
      IF ocd = NULL THEN "none" ELSE h.fo[p].cd>>

GC_register_finalizer(h, p, fn, cd, ofn, ocd) ==
    RegisterWith(h, p, fn, cd, ofn, ocd, "normal")

GC_register_finalizer_ignore_self(h, p, fn, cd, ofn, ocd) ==
    RegisterWith(h, p, fn, cd, ofn, ocd, "ignore_self")

GC_register_finalizer_no_order(h, p, fn, cd, ofn, ocd) ==
    RegisterWith(h, p, fn, cd, ofn, ocd, "no_order")

\* GC_disable, GC_enable (sys.rs:31-32).
GC_disable(h) == [h EXCEPT !.dont = h.dont + 1]

GC_enable(h) == [h EXCEPT !.dont = h.dont - 1]

(***************************************************************************)
(* The operations of src/lib.rs.                                           *)
(***************************************************************************)

Called(op, ret) == last' = [op |-> op, ret |-> ret]

\* Mutant: the block is taken from the collected heap.
__rust_allocate_collectable ==
    \E r \in GC_malloc(Heap, roots) :
        /\ SetHeap(r[1])
        /\ blocks' = IF r[2] = NULL THEN blocks ELSE blocks \cup {r[2]}
        /\ Called("allocate", r[2])
        /\ UNCHANGED <<roots, reg, resized>>

\* lib.rs:28-31.  The size decides only how much the block can hold.
__rust_allocate ==
    \E r \in GC_malloc_uncollectable(Heap, roots) :
        /\ SetHeap(r[1])
        /\ blocks' = IF r[2] = NULL THEN blocks ELSE blocks \cup {r[2]}
        /\ Called("allocate", r[2])
        /\ UNCHANGED <<roots, reg, resized>>

\* lib.rs:36-39.
__rust_deallocate(ptr) ==
    /\ ptr \in blocks
    /\ SetHeap(GC_free(Heap, ptr))
    /\ blocks' = blocks \ {ptr}
    /\ resized' = resized \ {ptr}
    /\ Called("deallocate", "unit")
    /\ UNCHANGED <<roots, reg>>

\* Mutant: the block is resized by hand: a new collected object, the contents
\* copied, the old block freed.
__rust_reallocate_by_copy(ptr, kept, move) ==
    /\ ptr \in blocks
    /\ kept \subseteq refs[ptr]
    /\ \E r \in GC_malloc(Heap, roots \cup {ptr}) :
        /\ SetHeap(IF r[2] = NULL THEN r[1]
                   ELSE GC_free([r[1] EXCEPT !.refs[r[2]] = kept], ptr))
        /\ blocks' = IF r[2] = NULL THEN blocks ELSE (blocks \ {ptr}) \cup {r[2]}
        /\ resized' = IF r[2] = NULL THEN resized ELSE (resized \ {ptr}) \cup {r[2]}
        /\ Called("reallocate", r[2])
    /\ UNCHANGED <<roots, reg>>

\* lib.rs:41-44.  `kept` is the part of the contents that fits the new size,
\* `move` whether libgc resizes by allocating anew.
__rust_reallocate(ptr, kept, move) ==
    /\ ptr \in blocks
    /\ kept \subseteq refs[ptr]
    /\ \E r \in GC_realloc(Heap, roots, ptr, kept, move) :
        /\ SetHeap(r[1])
        /\ blocks' = IF r[2] = NULL THEN blocks ELSE (blocks \ {ptr}) \cup {r[2]}
        /\ resized' = IF r[2] = NULL THEN resized ELSE (resized \ {ptr}) \cup {r[2]}
        /\ Called("reallocate", r[2])
    /\ UNCHANGED <<roots, reg>>

\* lib.rs:46-49.
__rust_reallocate_inplace(ptr, kept, move) ==
    /\ ptr \in blocks
    /\ kept \subseteq refs[ptr]
    /\ \E r \in GC_realloc(Heap, roots, ptr, kept, move) :
        /\ SetHeap(r[1])
        /\ blocks' = IF r[2] = NULL THEN blocks ELSE (blocks \ {ptr}) \cup {r[2]}
        /\ resized' = IF r[2] = NULL THEN resized ELSE (resized \ {ptr}) \cup {r[2]}
        /\ Called("reallocate_inplace", r[2])
    /\ UNCHANGED <<roots, reg>>

\* lib.rs:59-62.
gc_allocate ==
    \E r \in GC_malloc(Heap, roots) :
        /\ SetHeap(r[1])
        /\ roots' = IF r[2] = NULL THEN roots ELSE roots \cup {r[2]}
        /\ Called("gc_allocate", r[2])
        /\ UNCHANGED <<blocks, reg, resized>>

\* lib.rs:66-69.
gc_collect ==
    \E h \in GC_gcollect(Heap, roots) :
        /\ SetHeap(h)
        /\ Called("gc_collect", "unit")
        /\ UNCHANGED <<roots, blocks, reg, resized>>

\* Mutant: null is passed for the data as it is for the out-parameters.
RegisterCall_null_data(h, ptr, finalizer, data, mode) ==
    CASE mode = "Standard"   -> GC_register_finalizer(h, ptr, finalizer, "null", NULL, NULL)
      [] mode = "IgnoreSelf" -> GC_register_finalizer_ignore_self(h, ptr, finalizer, "null", NULL, NULL)
      [] mode = "NoOrder"    -> GC_register_finalizer_no_order(h, ptr, finalizer, "null", NULL, NULL)

\* Mutant: the Standard arm calls the no_order variant.
RegisterCall_standard_unordered(h, ptr, finalizer, data, mode) ==
    CASE mode = "Standard"   -> GC_register_finalizer_no_order(h, ptr, finalizer, data, NULL, NULL)
      [] mode = "IgnoreSelf" -> GC_register_finalizer_ignore_self(h, ptr, finalizer, data, NULL, NULL)
      [] mode = "NoOrder"    -> GC_register_finalizer_no_order(h, ptr, finalizer, data, NULL, NULL)

\* Mutant: the IgnoreSelf arm calls the plain variant.
RegisterCall_ignore_self_plain(h, ptr, finalizer, data, mode) ==
    CASE mode = "Standard"   -> GC_register_finalizer(h, ptr, finalizer, data, NULL, NULL)
      [] mode = "IgnoreSelf" -> GC_register_finalizer(h, ptr, finalizer, data, NULL, NULL)
      [] mode = "NoOrder"    -> GC_register_finalizer_no_order(h, ptr, finalizer, data, NULL, NULL)

\* Mutant: the NoOrder arm calls the plain variant.
RegisterCall_no_order_plain(h, ptr, finalizer, data, mode) ==
    CASE mode = "Standard"   -> GC_register_finalizer(h, ptr, finalizer, data, NULL, NULL)
      [] mode = "IgnoreSelf" -> GC_register_finalizer_ignore_self(h, ptr, finalizer, data, NULL, NULL)
      [] mode = "NoOrder"    -> GC_register_finalizer(h, ptr, finalizer, data, NULL, NULL)

\* lib.rs:116-138: the variant the mode selects, with null for both
\* out-parameters.
RegisterCall(h, ptr, finalizer, data, mode) ==
    CASE mode = "Standard"   -> GC_register_finalizer(h, ptr, finalizer, data, NULL, NULL)
      [] mode = "IgnoreSelf" -> GC_register_finalizer_ignore_self(h, ptr, finalizer, data, NULL, NULL)
      [] mode = "NoOrder"    -> GC_register_finalizer_no_order(h, ptr, finalizer, data, NULL, NULL)

\* Mutant: a pointer that has a record keeps it.
register_finalizer_keeps_first(ptr, finalizer, data, mode) ==
    /\ ptr \in roots
    /\ SetHeap(IF fo[ptr] # NoFin THEN Heap
               ELSE RegisterCall(Heap, ptr, finalizer, data, mode)[1])
    /\ Called("register_finalizer", <<"none", "none">>)
    /\ reg' = [reg EXCEPT ![ptr] = <<finalizer, data, mode, fo[ptr] # NoFin>>]
    /\ UNCHANGED <<roots, blocks, resized>>

\* lib.rs:112-139.  The function returns (); all the caller could get back is
\* what the primitive stores through the out-parameters.
register_finalizer(ptr, finalizer, data, mode) ==
    /\ ptr \in roots
    /\ LET r == RegisterCall(Heap, ptr, finalizer, data, mode)
       IN  SetHeap(r[1]) /\ Called("register_finalizer", <<r[2], r[3]>>)
    /\ reg' = [reg EXCEPT ![ptr] = <<finalizer, data, mode, fo[ptr] # NoFin>>]
    /\ UNCHANGED <<roots, blocks, resized>>

\* Mutant: gc_enable calls GC_disable.
gc_enable_disables ==
    /\ GC_dont_gc < MaxNest
    /\ SetHeap(GC_disable(Heap))
    /\ Called("gc_enable", "unit")
    /\ UNCHANGED <<roots, blocks, reg, resized>>

\* lib.rs:168-171.
gc_enable ==
    /\ GC_dont_gc > -MaxNest
    /\ SetHeap(GC_enable(Heap))
    /\ Called("gc_enable", "unit")
    /\ UNCHANGED <<roots, blocks, reg, resized>>

\* lib.rs:174-177.
gc_disable ==
    /\ GC_dont_gc < MaxNest
    /\ SetHeap(GC_disable(Heap))
    /\ Called("gc_disable", "unit")
    /\ UNCHANGED <<roots, blocks, reg, resized>>

(***************************************************************************)
(* What the program does with the memory it holds.                         *)
(***************************************************************************)

\* Objects whose memory the program can read and write.
Held == (roots \cup blocks) \cap Live(Heap)

\* Write the GC'd pointer p into o.
Store(o, p) ==
    /\ o \in Held
    /\ p \in roots
    /\ p \notin refs[o]
    /\ refs' = [refs EXCEPT ![o] = @ \cup {p}]
    /\ Called("memory", "unit")
    /\ UNCHANGED <<kind, fo, GC_finalize_now, GC_dont_gc, calls, roots, blocks, reg, resized>>

\* Overwrite the pointer p stored in o.
Erase(o, p) ==
    /\ o \in Held
    /\ p \in refs[o]
    /\ refs' = [refs EXCEPT ![o] = @ \ {p}]
    /\ Called("memory", "unit")
    /\ UNCHANGED <<kind, fo, GC_finalize_now, GC_dont_gc, calls, roots, blocks, reg, resized>>

\* Read the pointer p stored in o into a local.
Load(o, p) ==
    /\ o \in Held
    /\ p \in refs[o]
    /\ p \notin roots
    /\ roots' = roots \cup {p}
    /\ Called("memory", "unit")
    /\ UNCHANGED <<kind, refs, fo, GC_finalize_now, GC_dont_gc, calls, blocks, reg, resized>>

\* Let go of the local that holds p.
Drop(p) ==
    /\ p \in roots
    /\ roots' = roots \ {p}
    /\ Called("memory", "unit")
    /\ UNCHANGED <<kind, refs, fo, GC_finalize_now, GC_dont_gc, calls, blocks, reg, resized>>

NoReg == <<"none", "none", "none", FALSE>>

Init ==
    /\ kind = [o \in Obj |-> "none"]
    /\ refs = [o \in Obj |-> {}]
    /\ fo = [o \in Obj |-> NoFin]
    /\ GC_dont_gc = 0
    /\ GC_finalize_now = <<>>
    /\ calls = <<>>
    /\ roots = {}
    /\ blocks = {}
    /\ last = [op |-> "init", ret |-> "unit"]
    /\ reg = [o \in Obj |-> NoReg]
    /\ resized = {}
    /\ nDisable = 0
    /\ nEnable = 0
    /\ pc = [t \in Thread |-> <<"idle", "idle">>]
    /\ GC_allocate_ml = NULL
    /\ tmp = [t \in Thread |-> 0]

\* A step of a program that makes its calls one after the other.
Sequential == UNCHANGED <<pc, GC_allocate_ml, tmp>>

Uncounted == UNCHANGED <<nDisable, nEnable>> /\ Sequential

\* The allocator hooks over a heap that also holds GC'd objects.
NextAlloc ==
    \/ __rust_allocate /\ Uncounted
    \/ \E b \in Obj : __rust_deallocate(b) /\ Uncounted
    \/ \E b \in Obj, kept \in SUBSET Obj, move \in BOOLEAN :
            __rust_reallocate(b, kept, move) /\ Uncounted
    \/ \E b \in Obj, kept \in SUBSET Obj, move \in BOOLEAN :
            __rust_reallocate_inplace(b, kept, move) /\ Uncounted
    \/ gc_allocate /\ Uncounted
    \/ gc_collect /\ Uncounted
    \/ \E o, p \in Obj : Store(o, p) /\ Uncounted
    \/ \E o, p \in Obj : Erase(o, p) /\ Uncounted
    \/ \E o, p \in Obj : Load(o, p) /\ Uncounted
    \/ \E p \in Obj : Drop(p) /\ Uncounted

SpecAlloc == Init /\ [][NextAlloc]_vars

\* The collected heap with finalizers and the enable count.
NextFin ==
    \/ gc_allocate /\ Fresh(Heap) <= MaxFinObj /\ Uncounted
    \/ gc_collect /\ Uncounted
    \/ \E p \in Obj, c \in Callbacks, m \in FinalizerMode :
            register_finalizer(p, c[1], c[2], m) /\ Uncounted
    \/ gc_enable /\ GC_dont_gc > -MaxFinNest /\ Uncounted
    \/ gc_disable /\ GC_dont_gc < MaxFinNest /\ Uncounted
    \/ \E o, p \in Obj : Store(o, p) /\ Uncounted
    \/ \E o, p \in Obj : Erase(o, p) /\ Uncounted
    \/ \E o, p \in Obj : Load(o, p) /\ Uncounted
    \/ \E p \in Obj : Drop(p) /\ Uncounted

SpecFin == Init /\ [][NextFin]_vars

\* The enable count, with the calls in each direction counted.
NextGate ==
    \/ /\ gc_disable /\ nDisable < MaxCalls
       /\ nDisable' = nDisable + 1 /\ UNCHANGED nEnable /\ Sequential
    \/ /\ gc_enable /\ nEnable < MaxCalls
       /\ nEnable' = nEnable + 1 /\ UNCHANGED nDisable /\ Sequential
    \/ gc_allocate /\ Uncounted
    \/ gc_collect /\ Uncounted
    \/ \E p \in Obj : Drop(p) /\ Uncounted

SpecGate == Init /\ [][NextGate]_vars

(***************************************************************************)
(* gc_enable and gc_disable called from several threads.  lib.rs takes no  *)
(* lock; GC_enable and GC_disable take libgc's allocation lock around the  *)
(* load and the store of the count.                                        *)
(***************************************************************************)

HeapAlone ==
    UNCHANGED <<kind, refs, fo, GC_finalize_now, calls, roots, blocks, last, reg, resized>>

\* The calls of `op` that are under way.
UnderWay(op) == Cardinality({t \in Thread : pc[t][1] = op})

\* lib.rs:169-171, 175-177: thread t enters gc_enable or gc_disable, which calls
\* the primitive.
ThreadCall(t, op) ==
    /\ pc[t][1] = "idle"
    /\ (IF op = "gc_disable" THEN nDisable ELSE nEnable) + UnderWay(op) < MaxCalls
    /\ pc' = [pc EXCEPT ![t] = <<op, "lock">>]
    /\ UNCHANGED <<GC_dont_gc, GC_allocate_ml, tmp, nDisable, nEnable>>
    /\ HeapAlone

\* Mutant: the lock is not waited for.
GC_lock_free(t) ==
    /\ pc[t][2] = "lock"
    /\ pc' = [pc EXCEPT ![t][2] = "load"]
    /\ UNCHANGED <<GC_dont_gc, GC_allocate_ml, tmp, nDisable, nEnable>>
    /\ HeapAlone

\* The primitive takes the allocation lock.
GC_lock(t) ==
    /\ pc[t][2] = "lock"
    /\ GC_allocate_ml = NULL
    /\ GC_allocate_ml' = t
    /\ pc' = [pc EXCEPT ![t][2] = "load"]
    /\ UNCHANGED <<GC_dont_gc, tmp, nDisable, nEnable>>
    /\ HeapAlone

\* GC_dont_gc++ / GC_dont_gc--: the load.
GC_count_load(t) ==
    /\ pc[t][2] = "load"
    /\ tmp' = [tmp EXCEPT ![t] = GC_dont_gc]
    /\ pc' = [pc EXCEPT ![t][2] = "store"]
    /\ UNCHANGED <<GC_dont_gc, GC_allocate_ml, nDisable, nEnable>>
    /\ HeapAlone

\* GC_dont_gc++ / GC_dont_gc--: the store.
GC_count_store(t) ==
    /\ pc[t][2] = "store"
    /\ GC_dont_gc' = IF pc[t][1] = "gc_disable" THEN tmp[t] + 1 ELSE tmp[t] - 1
    /\ pc' = [pc EXCEPT ![t][2] = "unlock"]
    /\ UNCHANGED <<GC_allocate_ml, tmp, nDisable, nEnable>>
    /\ HeapAlone

\* The primitive releases the lock and the call returns.
GC_unlock(t) ==
    /\ pc[t][2] = "unlock"
    /\ GC_allocate_ml' = IF GC_allocate_ml = t THEN NULL ELSE GC_allocate_ml
    /\ nDisable' = IF pc[t][1] = "gc_disable" THEN nDisable + 1 ELSE nDisable
    /\ nEnable' = IF pc[t][1] = "gc_enable" THEN nEnable + 1 ELSE nEnable
    /\ pc' = [pc EXCEPT ![t] = <<"idle", "idle">>]
    /\ UNCHANGED <<GC_dont_gc, tmp>>
    /\ HeapAlone

NextThreads ==
    \/ \E t \in Thread, op \in {"gc_enable", "gc_disable"} : ThreadCall(t, op)
    \/ \E t \in Thread : GC_lock(t)
    \/ \E t \in Thread : GC_count_load(t)
    \/ \E t \in Thread : GC_count_store(t)
    \/ \E t \in Thread : GC_unlock(t)

SpecThreads == Init /\ [][NextThreads]_vars

TypeOK ==
    /\ kind \in [Obj -> {"none", "gc", "unc", "freed"}]
    /\ refs \in [Obj -> SUBSET Obj]
    /\ \A o \in Obj : fo[o] = NoFin \/ fo[o] \in FinRec
    /\ GC_dont_gc \in -MaxNest..MaxNest
    /\ roots \subseteq Obj
    /\ blocks \subseteq Obj

(***************************************************************************)
(* The claims.                                                             *)
(***************************************************************************)

\* What the program can reach: its roots and the uncollectable objects, with
\* all they reach.
ProgramReachable == Reach(Heap, roots \cup {o \in Obj : kind[o] = "unc"})

\* The objects whose finalizers this step invoked.
InvokedNow == {calls'[i][2] : i \in (Len(calls) + 1)..Len(calls')}

\* The objects whose finalizers have been invoked.
Finalized == {calls[i][2] : i \in DOMAIN calls}

\* No other object holds a pointer to p than b.
OnlyIn(b, p) == \A o \in Obj \ {b} : p \notin refs[o]

\* C1: a GC'd pointer stored in a block that the allocator returned and that
\* is not yet deallocated is not reclaimed by any step, a collection included,
\* whether or not anything else refers to it.
C1_StoredPointerSurvives ==
    [][\A b \in blocks : \A p \in refs[b] : kind[p] = "gc" => kind'[p] = "gc"]_vars

\* C1 witness: a collection has just run, enabled, over a block from allocate
\* that holds the only pointer to a GC'd object, which is still there.
C1_Witness ==
    /\ last.op = "gc_collect"
    /\ GC_dont_gc = 0
    /\ \E b \in blocks \ resized : \E p \in refs[b] :
            kind[p] = "gc" /\ p \notin roots /\ OnlyIn(b, p)

\* C2: every block the program holds, reallocated or not, is uncollectable and
\* scanned: all the pointers in it are marked by a root scan that starts from
\* no program root at all.
C2_BlocksStayScanned ==
    \A b \in blocks : kind[b] = "unc" /\ refs[b] \subseteq MarkedFromRoots(Heap, {})

\* C2 witness: a collection has just run, enabled, over a block that a
\* reallocation moved and that carried over the only pointer to a GC'd object.
C2_Witness ==
    /\ last.op = "gc_collect"
    /\ GC_dont_gc = 0
    /\ \E b \in blocks \cap resized : \E p \in refs[b] :
            /\ kind[p] = "gc" /\ p \notin roots /\ OnlyIn(b, p)
            /\ \E old \in Obj : old < p /\ p < b /\ kind[old] = "freed"

C4_FinalizedOnce ==
    [][/\ \A x \in Obj : Cardinality({i \in DOMAIN calls' : calls'[i][2] = x}) <= 1
       /\ \A i \in (Len(calls) + 1)..Len(calls') :
            LET x == calls'[i][2]
            IN  /\ calls'[i] = <<reg[x][1], x, reg[x][2]>>
                /\ x \notin ProgramReachable
                /\ kind[x] = "gc"
                /\ (x \notin Queued(Heap) => kind'[x] = "gc")
       /\ \A x \in Obj :
            kind[x] = "gc" /\ kind'[x] = "freed" =>
                fo[x] = NoFin /\ (x \in Queued(Heap) => x \in InvokedNow)
       /\ \A x \in Finalized :
            /\ fo'[x] = NoFin
            /\ reg'[x] = reg[x]
            /\ \A i \in DOMAIN GC_finalize_now' : GC_finalize_now'[i][2] # x]_vars

\* C4 witness: an object was finalized by one collection, reclaimed by a later
\* one, and a collection has run since with nothing more happening to it.
C4_Witness ==
    /\ last.op = "gc_collect"
    /\ GC_dont_gc = 0
    /\ \E x \in Obj :
        /\ kind[x] = "freed"
        /\ \E y \in Obj \ {x} : kind[y] = "freed" /\ reg[y] # NoReg /\ y \in Finalized
        /\ \E i \in DOMAIN calls : calls[i] = <<reg[x][1], x, reg[x][2]>>

\* C5: a finalizer registered under Standard never runs for an object that
\* lies on a cycle of pointers, a pointer to itself included.
C5_StandardSkipsCycles ==
    [][\A i \in (Len(calls) + 1)..Len(calls') :
          LET x == calls'[i][2]
          IN  reg[x][3] = "Standard" => x \notin Reach(Heap, refs[x])]_vars

\* C5 witness: two objects that point to each other, both registered under
\* Standard and unreachable, after an enabled collection: neither finalized.
C5_Witness ==
    /\ last.op = "gc_collect"
    /\ GC_dont_gc = 0
    /\ roots = {}
    /\ calls = <<>>
    /\ \E a, b \in Obj :
        /\ a # b
        /\ b \in refs[a] /\ a \in refs[b]
        /\ reg[a][3] = "Standard" /\ reg[b][3] = "Standard"
        /\ fo[a] # NoFin /\ fo[b] # NoFin
        /\ kind[a] = "gc" /\ kind[b] = "gc"

\* The program cannot reach x and no other object points to x.
OtherwiseUnreachable(x) ==
    x \notin roots /\ \A y \in Live(Heap) \ {x} : x \notin refs[y]

HeldBackByOrdered(x) ==
    \E y \in Obj \ {x} :
        /\ kind[y] = "gc" /\ fo[y] # NoFin /\ reg[y][3] # "NoOrder"
        /\ y \notin ProgramReachable
        /\ x \in Reach(Heap, refs[y])

C7_WitnessOtherOrder ==
    /\ last.op = "gc_collect"
    /\ \E a, b \in Obj :
        /\ a < b
        /\ b \in refs[a] /\ a \in refs[b]
        /\ reg[a][3] = "NoOrder" /\ reg[b][3] = "NoOrder"
        /\ Len(calls) = 2 /\ calls[1][2] = a /\ calls[2][2] = b

\* C8: the enable count is the number of gc_disable calls less the number of
\* gc_enable calls, each call moving it by exactly one; gc_collect does
\* nothing to the heap while the two numbers differ and reclaims all garbage
\* when they are equal.
C8_NestingCount ==
    [][/\ GC_dont_gc' = nDisable' - nEnable'
       /\ (GC_dont_gc' < 0) = (nEnable' > nDisable')
       /\ last'.op = "gc_disable" => GC_dont_gc' = GC_dont_gc + 1
       /\ last'.op = "gc_enable" => GC_dont_gc' = GC_dont_gc - 1
       /\ (last'.op = "gc_collect" /\ nDisable # nEnable) => kind' = kind
       /\ (last'.op = "gc_collect" /\ nDisable = nEnable) =>
            \A x \in Obj : kind[x] = "gc" /\ x \notin ProgramReachable => kind'[x] = "freed"]_vars

\* C8 witness: after two gc_disable calls and one gc_enable call, gc_collect
\* has left garbage in the heap.
C8_Witness ==
    /\ nDisable = 2 /\ nEnable = 1
    /\ last.op = "gc_collect"
    /\ \E x \in Obj : kind[x] = "gc" /\ x \notin roots

\* After two calls of each, gc_collect has reclaimed what it had left before.
C8_WitnessReenabled ==
    /\ nDisable = 2 /\ nEnable = 2
    /\ last.op = "gc_collect"
    /\ \E x \in Obj : kind[x] = "freed"
    /\ \A x \in Obj : kind[x] = "gc" => x \in roots

\* The finalizer of x was not run by this step although x has a record.
ExcludedNow(x) == fo[x] # NoFin /\ x \notin InvokedNow

HeldByFinalizable == Reach(Heap, {y \in Obj : fo[y] # NoFin})

C9_WitnessEnabled ==
    /\ last.op = "gc_collect"
    /\ GC_dont_gc = 0
    /\ \E x, y \in Obj :
        /\ kind[x] = "gc" /\ x \in Finalized /\ x \notin ProgramReachable
        /\ kind[y] = "freed" /\ y \notin Finalized

\* The stores made by calls that have not returned yet.
StoredUnderWay(op) == Cardinality({t \in Thread : pc[t] = <<op, "unlock">>})

C10_WitnessAllReturned ==
    /\ \A t \in Thread : pc[t][1] = "idle"
    /\ nDisable = MaxCalls /\ nEnable = 1
    /\ GC_dont_gc = MaxCalls - 1

====
